---- MODULE Spec2Model ----
(***************************************************************************)
(* Restaurant Trends ETL: the relational loader (etl/loaders/              *)
(* postgres_loader.py) driven by load_to_database / main                   *)
(* (etl/etl_restaurant_trends.py), the cleaning and splitting stages      *)
(* (etl/utils/cleaning.py, etl/utils/mapping.py), the parsing helpers      *)
(* (etl/utils/parsing.py) and the stages of main.                          *)
(*                                                                         *)
(* The 21 location columns and 22 trend columns of etl/utils/mapping.py    *)
(* are represented by the key columns and one non-key column per table     *)
(* (chain for locations, grade for trends); the code treats every non-key  *)
(* column alike.                                                           *)
(***************************************************************************)
EXTENDS Integers, Sequences, FiniteSets, TLC

\* ------------------------------------------------------------------ bounds
MaxRuns == 2
MaxRows == 2
MaxOtherRows == 1
MaxTableRows == 3
MaxPathLen == 5
MaxTenths == 127

\* --------------------------------------------------------------- constants
NULL == "NULL"
StoreNos == {"A", "B"}
Chains == {"x", "y"}
Grades == {"g", "h"}
Years == {2023, 2024}

VARIABLES
    \* database-mode run (load_to_database / PostgresLoader)
    pc,            \* position of the run
    run,           \* number of runs started; also the store's clock (now())
    location_df,   \* argument of load_to_database, until upsert_locations has run
    trend_df,      \* argument of load_to_database, from its first use
                   \* (verify_foreign_keys) until upsert_trends has run
    loc_inserted,  \* rows_affected returned by upsert_locations
    trend_inserted, \* rows_affected returned by upsert_trends
    conn,          \* self.conn: "none", "open", "closed"
    cursor,        \* self.cursor: "none", "open", "closed"
    exc,           \* the exception propagating, "none" when there is none
    failed,        \* loader operations in which the store signalled an error
    fk,            \* result of verify_foreign_keys: "none", "valid", "invalid"
    missing,       \* missing store_nos returned by verify_foreign_keys
    load_stats,         \* value returned by get_load_stats
    exitLog,       \* connection calls made by __exit__, in order
    exit_status,   \* value returned by main, -1 while running
    location,      \* committed rows of restaurant_location
    trend,         \* committed rows of restaurant_trend
    sessLocation,  \* restaurant_location as seen inside the session's transaction
    sessTrend,     \* restaurant_trend as seen inside the session's transaction
    \* cleaning and splitting (main, steps 3 and 4)
    cpc,           \* position in main: "off", "read", "cleaned", "split", ...
    year,          \* year extracted from the file name
    df_raw,        \* table read from the input file
    df_clean,      \* table returned by clean_excel_data
    clean_stats,   \* CleaningStats returned by clean_excel_data
    again,         \* result of clean_excel_data applied to df_clean
    deduped,       \* result of drop_duplicate_store_nos applied to df_raw
    split,         \* result of split_location_and_trend_data
    \* main, steps 1, 2 and 5 to 7
    input_file,    \* args.input_file, a sequence of characters
    load_mode,     \* args.load_mode: "none" or "postgres"
    mapped,        \* result of apply_column_mapping_and_types
    csv,           \* files written by export_to_csv
    \* parsing and mapping helpers applied to one argument
    arg,           \* the argument: a path or a cell value with allow_null
    ret            \* function applied and what it returned or raised

loaderVars == << pc, run, location_df, trend_df, loc_inserted, trend_inserted, conn, cursor, exc, failed, fk,
                 missing, load_stats, exitLog, exit_status, location, trend,
                 sessLocation, sessTrend >>

cleanVars == << cpc, year, df_raw, df_clean, clean_stats, again, deduped, split >>

mainVars == << input_file, load_mode, mapped, csv >>

parseVars == << arg, ret >>

vars == << loaderVars, cleanVars, mainVars, parseVars >>

\* ----------------------------------------------------------------- helpers
Restrict(r, C) == [c \in C |-> r[c]]

SeqsUpTo(S, n) == UNION { [1..k -> S] : k \in 0..n }

Prefix(s, k) == SubSeq(s, 1, k)

MaxOf(S) == CHOOSE m \in S : \A x \in S : x <= m

\* DataFrame: a set of column names and a sequence of rows over them
DataFrame(C, s) == [columns |-> C, rows |-> s]

Empty(df) == Len(df.rows) = 0

\* a frame no later statement of the run reads
NoFrame == DataFrame({}, << >>)

\* the frames load_to_database is given.  The pipeline produces the columns
\* of the mapping tables; frames of any other shape (a created_at or trend_id
\* column, a missing key column, the key column alone) are enumerated up to
\* MaxOtherRows rows.
LocationColumns == {"store_no", "chain"}

TrendColumns == {"store_no", "year", "grade"}

LocationColumnChoices ==
    { LocationColumns, {"store_no", "chain", "created_at"},
      {"chain"}, {"store_no"} }

TrendColumnChoices ==
    { TrendColumns, {"store_no", "year", "grade", "trend_id", "created_at"},
      {"store_no", "grade"}, {"year", "grade"} }

RowBound(C, pipeline) == IF C = pipeline THEN MaxRows ELSE MaxOtherRows

LocationDfs ==
    UNION { { DataFrame(C, s) :
                s \in SeqsUpTo({ Restrict(r, C) :
                        r \in [store_no : StoreNos, chain : Chains,
                               created_at : {0}] },
                        RowBound(C, LocationColumns)) } :
            C \in LocationColumnChoices }

\* every trend row of one run carries the year of the input file
TrendDfs ==
    UNION { { DataFrame(C, s) :
                s \in { t \in SeqsUpTo({ Restrict(r, C) :
                            r \in [store_no : StoreNos, year : Years,
                                   grade : Grades, trend_id : {0},
                                   created_at : {0}] },
                            RowBound(C, TrendColumns)) :
                        "year" \in C =>
                            \A i, j \in DOMAIN t : t[i].year = t[j].year } } :
            C \in TrendColumnChoices }

Range(s) == { s[i] : i \in DOMAIN s }

\* the frames main hands to load_to_database: the ones it produced in step 5
\* when the run came through main, any frame otherwise
LocationInputs == IF cpc = "off" THEN LocationDfs ELSE {mapped.location_df}

TrendInputs == IF cpc = "off" THEN TrendDfs ELSE {mapped.trend_df}

\* main, step 7: load_to_database is called when --load postgres was given
LoadRequested ==
    \/ cpc = "off"
    \/ cpc = "exported" /\ load_mode = "postgres" /\ pc = "idle"

\* ------------------------------------------------- the store's upsert (SQL)
\* variant: ON CONFLICT DO NOTHING, the stored row is kept as it is
OnConflictDoNothing(tbl, keyCols, r, cols, updateCols, defaults) ==
    IF \E t \in tbl : \A k \in keyCols : t[k] = r[k]
    THEN tbl
    ELSE tbl \cup
         { [f \in DOMAIN defaults |-> IF f \in cols THEN r[f] ELSE defaults[f]] }

\* INSERT INTO tbl (cols) VALUES r ON CONFLICT (keyCols) DO UPDATE SET
\* c = EXCLUDED.c for c in updateCols; columns not supplied take defaults
OnConflictDoUpdate(tbl, keyCols, r, cols, updateCols, defaults) ==
    LET hit == { t \in tbl : \A k \in keyCols : t[k] = r[k] }
    IN  IF hit # {}
        THEN (tbl \ hit) \cup
             { [f \in DOMAIN t |-> IF f \in updateCols THEN r[f] ELSE t[f]] :
               t \in hit }
        ELSE tbl \cup
             { [f \in DOMAIN defaults |->
                    IF f \in cols THEN r[f] ELSE defaults[f]] }

FreshTrendId(tbl) ==
    IF tbl = {} THEN 1 ELSE MaxOf({ t.trend_id : t \in tbl }) + 1

LocationUpdateCols(columns) ==
    { col \in columns : col # "store_no" /\ col # "created_at" }

\* variant: only the conflict key is left out of the update clause
TrendUpdateCols_KeysOnly(columns) ==
    { col \in columns : col \notin {"store_no", "year"} }

TrendUpdateCols(columns) ==
    { col \in columns : col \notin {"store_no", "year", "trend_id", "created_at"} }

RECURSIVE InsertLocations(_, _, _, _)
InsertLocations(tbl, values, columns, now) ==
    IF Len(values) = 0 THEN tbl
    ELSE InsertLocations(
            OnConflictDoUpdate(tbl, {"store_no"}, Head(values), columns,
                               LocationUpdateCols(columns),
                               [store_no |-> NULL, chain |-> NULL,
                                created_at |-> now]),
            Tail(values), columns, now)

RECURSIVE InsertTrends(_, _, _, _)
InsertTrends(tbl, values, columns, now) ==
    IF Len(values) = 0 THEN tbl
    ELSE InsertTrends(
            OnConflictDoUpdate(tbl, {"store_no", "year"}, Head(values), columns,
                               TrendUpdateCols(columns),
                               [store_no |-> NULL, year |-> 0, grade |-> NULL,
                                trend_id |-> FreshTrendId(tbl),
                                created_at |-> now]),
            Tail(values), columns, now)

\* trend_df['store_no'].unique().tolist(): distinct values, first occurrence order
RECURSIVE Unique(_)
Unique(s) ==
    IF Len(s) = 0 THEN << >>
    ELSE LET init == Unique(Prefix(s, Len(s) - 1))
             last == s[Len(s)]
         IN  IF \E i \in DOMAIN init : init[i] = last THEN init
             ELSE Append(init, last)

StoreNoColumn(df) == [i \in DOMAIN df.rows |-> df.rows[i].store_no]

\* ------------------------------------------------------------------- Init
LoaderInit ==
    /\ pc = "idle"
    /\ run = 0
    /\ location_df = NoFrame
    /\ trend_df = NoFrame
    /\ loc_inserted = 0
    /\ trend_inserted = 0
    /\ conn = "none"
    /\ cursor = "none"
    /\ exc = "none"
    /\ failed = {}
    /\ fk = "none"
    /\ missing = << >>
    /\ load_stats = << >>
    /\ exitLog = << >>
    /\ exit_status = -1
    /\ location = {}
    /\ trend = {}
    /\ sessLocation = {}
    /\ sessTrend = {}

CleanOff ==
    /\ cpc = "off"
    /\ year = 0
    /\ df_raw = NoFrame
    /\ df_clean = NoFrame
    /\ clean_stats = << >>
    /\ again = << >>
    /\ deduped = << >>
    /\ split = << >>

MainOff ==
    /\ input_file = << >>
    /\ load_mode = "postgres"
    /\ mapped = << >>
    /\ csv = {}

ParseOff ==
    /\ arg = << >>
    /\ ret = << >>

Init == LoaderInit /\ CleanOff /\ MainOff /\ ParseOff

\* ---------------------------------------------------------------- actions
\* main calls load_to_database, which constructs the PostgresLoader.  The
\* frames are inputs of the run: location_df is chosen here, trend_df where
\* the run first reads it, and each is forgotten after the last statement
\* that reads it.
StartRun ==
    /\ pc \in {"idle", "done"}
    /\ LoadRequested
    /\ UNCHANGED << cleanVars, mainVars, parseVars >>
    /\ run < MaxRuns
    /\ \E ldf \in LocationInputs, connection_string \in BOOLEAN :
         /\ location_df' = ldf
         /\ trend_df' = NoFrame
         /\ IF connection_string
            THEN pc' = "enter" /\ exc' = "none"
            ELSE pc' = "raised" /\ exc' = "ValueError"
    /\ run' = run + 1
    /\ loc_inserted' = 0
    /\ trend_inserted' = 0
    /\ conn' = "none"
    /\ cursor' = "none"
    /\ failed' = {}
    /\ fk' = "none"
    /\ missing' = << >>
    /\ load_stats' = << >>
    /\ exitLog' = << >>
    /\ exit_status' = -1
    /\ sessLocation' = location
    /\ sessTrend' = trend
    /\ UNCHANGED << location, trend >>

\* __enter__ -> connect
connect ==
    /\ pc = "enter"
    /\ UNCHANGED << cleanVars, mainVars, parseVars >>
    /\ \E outcome \in {"ok", "connect_error", "cursor_error"} :
         /\ conn' = IF outcome = "connect_error" THEN "none" ELSE "open"
         /\ cursor' = IF outcome = "ok" THEN "open" ELSE "none"
         /\ exc' = IF outcome = "ok" THEN "none" ELSE "psycopg2.Error"
         /\ failed' = IF outcome = "ok" THEN failed ELSE failed \cup {"connect"}
         /\ pc' = IF outcome = "ok" THEN "locations" ELSE "raised"
    /\ UNCHANGED << run, location_df, trend_df, loc_inserted, trend_inserted,
                    fk, missing, load_stats, exitLog, exit_status, location, trend,
                    sessLocation, sessTrend >>

\* self.conn.rollback() inside an except clause: it discards the session's
\* uncommitted changes, or fails itself and leaves the session as it is
Rollback(ok, dirtyLocation, dirtyTrend) ==
    /\ sessLocation' = IF ok THEN location ELSE dirtyLocation
    /\ sessTrend' = IF ok THEN trend ELSE dirtyTrend

\* execute_values + commit of one upsert.  The statement (or the commit)
\* either succeeds for the whole batch or signals psycopg2.Error after the
\* first k rows were written inside the transaction.
\* variant: every written row is committed at once (autocommit)
Commit_Always(error, committed, written) == written

\* self.conn.commit() is reached only when execute_values raised nothing
Commit(error, committed, written) == IF error THEN committed ELSE written

upsert_locations ==
    /\ pc = "locations"
    /\ UNCHANGED << cleanVars, mainVars, parseVars >>
    /\ IF Empty(location_df)
       THEN /\ pc' = "verify"
            /\ UNCHANGED << exc, failed, loc_inserted, location, trend,
                            sessLocation, sessTrend >>
       ELSE IF "store_no" \notin location_df.columns
       THEN /\ pc' = "exit"
            /\ exc' = "ValueError"
            /\ UNCHANGED << failed, loc_inserted, location, trend,
                            sessLocation, sessTrend >>
       ELSE \E error \in BOOLEAN, k \in 0..Len(location_df.rows),
               rollback_ok \in BOOLEAN :
              LET columns == location_df.columns
                  values == location_df.rows
                  written == InsertLocations(sessLocation, Prefix(values, k),
                                             columns, run)
              IN  IF ~error /\ LocationUpdateCols(columns) # {}
                  THEN /\ k = Len(values)
                       /\ rollback_ok
                       /\ sessLocation' = written
                       /\ location' = Commit(error, location, written)
                       /\ trend' = sessTrend
                       /\ loc_inserted' = Len(values)
                       /\ pc' = "verify"
                       /\ UNCHANGED << exc, failed, sessTrend >>
                  ELSE /\ error
                       /\ LocationUpdateCols(columns) = {} => k = 0
                       /\ Rollback(rollback_ok, written, sessTrend)
                       /\ exc' = "psycopg2.Error"
                       /\ failed' = failed \cup {"upsert_locations"} \cup
                                    (IF rollback_ok THEN {} ELSE {"rollback"})
                       /\ pc' = "exit"
                       /\ location' = Commit(error, location, written)
                       /\ UNCHANGED << loc_inserted, trend >>
    /\ location_df' = NoFrame
    /\ UNCHANGED << run, trend_df, trend_inserted, conn, cursor, fk, missing,
                    load_stats, exitLog, exit_status >>

\* variant: only the first referenced store_no is looked up
MissingStoreNos_FirstOnly(store_nos, existing) ==
    IF Len(store_nos) > 0 /\ store_nos[1] \notin existing
    THEN << store_nos[1] >> ELSE << >>

\* missing = [sn for sn in store_nos if sn not in existing]
MissingStoreNos(store_nos, existing) ==
    LET notFound(sn) == sn \notin existing
    IN  SelectSeq(store_nos, notFound)

\* variant: the verification result is ignored
FkError_Ignored(fk_valid) == "none"

\* load_to_database: if not fk_valid: raise ValueError(...)
FkError(fk_valid) == IF fk_valid THEN "none" ELSE "ValueError"

\* verify_foreign_keys, and load_to_database acting on its result
verify_foreign_keys ==
    /\ pc = "verify"
    /\ UNCHANGED << cleanVars, mainVars, parseVars >>
    /\ \E tdf \in TrendInputs :
         /\ trend_df' = tdf
         /\ IF Empty(tdf)
            THEN /\ fk' = "valid"
                 /\ pc' = "trends"
                 /\ UNCHANGED << exc, failed, missing >>
            ELSE IF "store_no" \notin tdf.columns
            THEN /\ exc' = "KeyError"
                 /\ pc' = "exit"
                 /\ UNCHANGED << fk, failed, missing >>
            ELSE \E error \in BOOLEAN :
                   LET store_nos == Unique(StoreNoColumn(tdf))
                       existing == { l.store_no : l \in sessLocation } \cap
                                   Range(store_nos)
                       miss == MissingStoreNos(store_nos, existing)
                   IN  IF error
                       THEN /\ exc' = "psycopg2.Error"
                            /\ failed' = failed \cup {"verify_foreign_keys"}
                            /\ pc' = "exit"
                            /\ UNCHANGED << fk, missing >>
                       ELSE /\ fk' = IF Len(miss) > 0 THEN "invalid" ELSE "valid"
                            /\ missing' = miss
                            /\ exc' = FkError(Len(miss) = 0)
                            /\ pc' = IF exc' = "none" THEN "trends" ELSE "exit"
                            /\ UNCHANGED failed
    /\ UNCHANGED << run, location_df, loc_inserted, trend_inserted,
                    conn, cursor, load_stats, exitLog, exit_status, location, trend,
                    sessLocation, sessTrend >>

upsert_trends ==
    /\ pc = "trends"
    /\ UNCHANGED << cleanVars, mainVars, parseVars >>
    /\ IF Empty(trend_df)
       THEN /\ pc' = "stats"
            /\ UNCHANGED << exc, failed, trend_inserted, location, trend,
                            sessLocation, sessTrend >>
       ELSE IF {"store_no", "year"} \ trend_df.columns # {}
       THEN /\ pc' = "exit"
            /\ exc' = "ValueError"
            /\ UNCHANGED << failed, trend_inserted, location, trend,
                            sessLocation, sessTrend >>
       ELSE \E error \in BOOLEAN, k \in 0..Len(trend_df.rows),
               rollback_ok \in BOOLEAN :
              LET columns == trend_df.columns \ {"trend_id"}
                  values == trend_df.rows
                  written == InsertTrends(sessTrend, Prefix(values, k),
                                          columns, run)
              IN  IF ~error /\ TrendUpdateCols(columns) # {}
                  THEN /\ k = Len(values)
                       /\ rollback_ok
                       /\ sessTrend' = written
                       /\ trend' = Commit(error, trend, written)
                       /\ location' = sessLocation
                       /\ trend_inserted' = Len(values)
                       /\ pc' = "stats"
                       /\ UNCHANGED << exc, failed, sessLocation >>
                  ELSE /\ error
                       /\ TrendUpdateCols(columns) = {} => k = 0
                       /\ Rollback(rollback_ok, sessLocation, written)
                       /\ exc' = "psycopg2.Error"
                       /\ failed' = failed \cup {"upsert_trends"} \cup
                                    (IF rollback_ok THEN {} ELSE {"rollback"})
                       /\ pc' = "exit"
                       /\ trend' = Commit(error, trend, written)
                       /\ UNCHANGED << trend_inserted, location >>
    /\ trend_df' = NoFrame
    /\ UNCHANGED << run, location_df, loc_inserted, conn, cursor, fk, missing,
                    load_stats, exitLog, exit_status >>

\* get_load_stats: a store error is logged and an empty dict returned
get_load_stats ==
    /\ pc = "stats"
    /\ UNCHANGED << cleanVars, mainVars, parseVars >>
    /\ \E error \in BOOLEAN :
         IF error
         THEN /\ load_stats' = << >>
              /\ failed' = failed \cup {"get_load_stats"}
         ELSE /\ load_stats' = [total_locations |-> Cardinality(sessLocation),
                           total_trends |-> Cardinality(sessTrend),
                           year_range |->
                               IF sessTrend = {} THEN << >>
                               ELSE << -MaxOf({ -t.year : t \in sessTrend }),
                                       MaxOf({ t.year : t \in sessTrend }) >>]
              /\ UNCHANGED failed
    /\ pc' = "exit"
    /\ UNCHANGED << run, location_df, trend_df, loc_inserted, trend_inserted,
                    conn, cursor, exc, fk, missing, exitLog, exit_status,
                    location, trend, sessLocation, sessTrend >>

\* __exit__: rollback when an exception is propagating, then close(); an
\* error raised by the rollback leaves __exit__ before close() is called
Exit ==
    /\ pc = "exit"
    /\ UNCHANGED << cleanVars, mainVars, parseVars >>
    /\ IF exc = "none"
       THEN /\ cursor' = "closed"
            /\ conn' = "closed"
            /\ exitLog' = << "close" >>
            /\ pc' = "returned"
            /\ UNCHANGED << exc, failed, sessLocation, sessTrend >>
       ELSE \E rollback_ok \in BOOLEAN :
              /\ Rollback(rollback_ok, sessLocation, sessTrend)
              /\ IF rollback_ok
                 THEN /\ cursor' = "closed"
                      /\ conn' = "closed"
                      /\ exitLog' = << "rollback", "close" >>
                      /\ UNCHANGED << exc, failed >>
                 ELSE /\ exc' = "psycopg2.Error"
                      /\ failed' = failed \cup {"rollback"}
                      /\ exitLog' = << >>
                      /\ UNCHANGED << cursor, conn >>
              /\ pc' = "raised"
    /\ UNCHANGED << run, location_df, trend_df, loc_inserted, trend_inserted,
                    fk, missing, load_stats, exit_status, location, trend >>

\* variant: main returns 0 whatever happened
ExitStatus_Zero(raised) == 0

\* main: return 0 at the end of the try block, return 1 in the except clause
ExitStatus(raised) == IF raised THEN 1 ELSE 0

\* load_to_database logs and re-raises; main returns
Finish ==
    /\ pc \in {"raised", "returned"}
    /\ UNCHANGED << cleanVars, mainVars, parseVars >>
    /\ exit_status' = ExitStatus(pc = "raised")
    /\ pc' = "done"
    /\ location_df' = NoFrame
    /\ trend_df' = NoFrame
    /\ UNCHANGED << run, loc_inserted, trend_inserted, conn, cursor, exc,
                    failed, fk, missing, load_stats, exitLog, location, trend,
                    sessLocation, sessTrend >>

Next ==
    \/ StartRun
    \/ connect
    \/ upsert_locations
    \/ verify_foreign_keys
    \/ upsert_trends
    \/ get_load_stats
    \/ Exit
    \/ Finish

\* ===================================================== cleaning and splitting
NaN == "NaN"

\* LOCATION_COLUMN_MAP / TREND_COLUMN_MAP: Excel column name -> field name
LOCATION_COLUMN_MAP == [STORE_NO |-> "store_no", CHAIN |-> "chain"]

TREND_COLUMN_MAP == [STORE_NO |-> "store_no", YEAR |-> "year", GRADE |-> "grade"]

get_location_columns == DOMAIN LOCATION_COLUMN_MAP

get_trend_columns == { k \in DOMAIN TREND_COLUMN_MAP : k # "YEAR" }

\* the tables read_excel_file can return: all mapped columns, no STORE_NO
\* column, or no GRADE column; a cell is NaN, the empty string or a value
ExcelColumnChoices ==
    { {"STORE_NO", "CHAIN", "GRADE"}, {"CHAIN", "GRADE"}, {"STORE_NO", "CHAIN"} }

ExcelTables ==
    UNION { { DataFrame(C, s) :
                s \in SeqsUpTo({ Restrict(r, C) :
                        r \in [STORE_NO : {NaN, "", "A", "B"},
                               CHAIN : {NaN, "x"}, GRADE : {NaN, "g"}] },
                        MaxTableRows) } :
            C \in ExcelColumnChoices }

isna(v) == v = NaN

\* the rows of s whose index satisfies mask, in order
RECURSIVE Mask(_, _)
Mask(s, mask) ==
    IF Len(s) = 0 THEN << >>
    ELSE LET init == Mask(Prefix(s, Len(s) - 1), mask)
         IN  IF mask[Len(s)] THEN Append(init, s[Len(s)]) ELSE init

\* df.duplicated(subset=[subset], keep='first'): a row is a duplicate when an
\* earlier row has the same value (NaN equal to NaN)
duplicated(rows, subset) ==
    [i \in DOMAIN rows |-> \E j \in 1..(i - 1) : rows[j][subset] = rows[i][subset]]

\* variant: keep='last'
drop_duplicates_keep_last(rows, subset) ==
    Mask(rows, [i \in DOMAIN rows |->
                  ~\E j \in (i + 1)..Len(rows) : rows[j][subset] = rows[i][subset]])

\* df.drop_duplicates(subset=[subset], keep='first')
drop_duplicates(rows, subset) ==
    LET dup == duplicated(rows, subset)
    IN  Mask(rows, [i \in DOMAIN rows |-> ~dup[i]])

\* variant: the rows kept are counted instead of the rows dropped
DroppedCount_Kept(initial_count, df_cleaned) == Len(df_cleaned.rows)

\* dropped_count = initial_count - len(df_cleaned)
DroppedCount(initial_count, df_cleaned) == initial_count - Len(df_cleaned.rows)

Warn(stats, msg, n) ==
    [stats EXCEPT !.warnings = Append(@, [msg |-> msg, n |-> n])]

CleaningStats ==
    [total_rows |-> 0, empty_rows_dropped |-> 0, null_store_no_dropped |-> 0,
     invalid_coords_dropped |-> 0, duplicate_rows_dropped |-> 0,
     warnings |-> << >>]

\* variant: the empty rows are not subtracted
get_final_count_NoEmpty(stats) ==
    stats.total_rows - stats.null_store_no_dropped
        - stats.invalid_coords_dropped - stats.duplicate_rows_dropped

get_final_count(stats) ==
    stats.total_rows - stats.empty_rows_dropped - stats.null_store_no_dropped
        - stats.invalid_coords_dropped - stats.duplicate_rows_dropped

\* df.dropna(how='all')
drop_empty_rows(df, stats) ==
    LET notEmpty(r) == \E c \in df.columns : ~isna(r[c])
        df_cleaned == DataFrame(df.columns, SelectSeq(df.rows, notEmpty))
        dropped_count == DroppedCount(Len(df.rows), df_cleaned)
    IN  [df |-> df_cleaned,
         stats |-> [stats EXCEPT !.empty_rows_dropped = dropped_count]]

\* variant: only null keys are dropped, empty strings stay
drop_null_store_no_NullOnly(df, stats) ==
    IF "STORE_NO" \notin df.columns
    THEN [df |-> df,
          stats |-> Warn(stats, "STORE_NO column missing from data", 0)]
    ELSE LET hasKey(r) == ~isna(r.STORE_NO)
             df_cleaned == DataFrame(df.columns, SelectSeq(df.rows, hasKey))
         IN  [df |-> df_cleaned,
              stats |-> [stats EXCEPT !.null_store_no_dropped =
                                         DroppedCount(Len(df.rows), df_cleaned)]]

drop_null_store_no(df, stats) ==
    IF "STORE_NO" \notin df.columns
    THEN [df |-> df,
          stats |-> Warn(stats, "STORE_NO column missing from data", 0)]
    ELSE LET hasKey(r) == ~isna(r.STORE_NO) /\ r.STORE_NO # ""
             df_cleaned == DataFrame(df.columns, SelectSeq(df.rows, hasKey))
             dropped_count == DroppedCount(Len(df.rows), df_cleaned)
             counted == [stats EXCEPT !.null_store_no_dropped = dropped_count]
         IN  [df |-> df_cleaned,
              stats |-> IF dropped_count > 0
                        THEN Warn(counted,
                                  "rows missing required STORE_NO field",
                                  dropped_count)
                        ELSE counted]

\* variant: the duplicates stay in the table
drop_duplicate_store_nos_Skipped(df, stats) == [df |-> df, stats |-> stats]

drop_duplicate_store_nos(df, stats) ==
    IF "STORE_NO" \notin df.columns
    THEN [df |-> df, stats |-> stats]
    ELSE LET dup == duplicated(df.rows, "STORE_NO")
             duplicates == Mask(df.rows, dup)
             warned == IF Len(duplicates) > 0
                       THEN Warn(stats, "duplicate STORE_NO values found",
                                 Len(duplicates))
                       ELSE stats
             df_cleaned == DataFrame(df.columns,
                                     drop_duplicates(df.rows, "STORE_NO"))
             dropped_count == DroppedCount(Len(df.rows), df_cleaned)
         IN  [df |-> df_cleaned,
              stats |-> [warned EXCEPT !.duplicate_rows_dropped = dropped_count]]

\* key_columns, of which the model has STORE_NO and CHAIN, in this order
KeyColumns == << "STORE_NO", "CHAIN" >>

\* check_data_quality: a warning for every key column with more than 10% nulls
RECURSIVE QualityWarnings(_, _, _)
QualityWarnings(df, stats, k) ==
    IF k > Len(KeyColumns) THEN stats
    ELSE LET col == KeyColumns[k]
             null_count == IF col \in df.columns
                           THEN Cardinality({ i \in DOMAIN df.rows :
                                                isna(df.rows[i][col]) })
                           ELSE 0
             null_heavy == /\ col \in df.columns
                           /\ Len(df.rows) > 0
                           /\ null_count * 100 > 10 * Len(df.rows)
         IN  QualityWarnings(df,
                 IF null_heavy THEN Warn(stats, col, null_count) ELSE stats,
                 k + 1)

check_data_quality(df, stats) == QualityWarnings(df, stats, 1)

clean_excel_data(df) ==
    LET stats == [CleaningStats EXCEPT !.total_rows = Len(df.rows)]
        step1 == drop_empty_rows(df, stats)
        step2 == drop_null_store_no(step1.df, step1.stats)
        step3 == drop_duplicate_store_nos(step2.df, step2.stats)
    IN  [df |-> step3.df, stats |-> check_data_quality(step3.df, step3.stats)]

\* variant: the location rows are deduplicated on another column
LocationDedupSubset_Chain == "CHAIN"

\* the column the splitter deduplicates the location rows on
LocationDedupSubset == "STORE_NO"

\* df[cols] raises KeyError unless every listed column exists
split_location_and_trend_data(df, yr) ==
    IF ~(get_location_columns \subseteq df.columns)
       \/ ~(get_trend_columns \subseteq df.columns)
    THEN [exc |-> "KeyError", location_df |-> NoFrame, trend_df |-> NoFrame]
    ELSE LET location_rows ==
                 [i \in DOMAIN df.rows |-> Restrict(df.rows[i], get_location_columns)]
             trend_rows ==
                 [i \in DOMAIN df.rows |->
                     [c \in get_trend_columns \cup {"YEAR"} |->
                         IF c = "YEAR" THEN yr ELSE df.rows[i][c]]]
         IN  [exc |-> "none",
              location_df |-> DataFrame(get_location_columns,
                                  drop_duplicates(location_rows, LocationDedupSubset)),
              trend_df |-> DataFrame(get_trend_columns \cup {"YEAR"}, trend_rows)]

\* -------------------------------------------------- main, steps 2 to 4
InitClean ==
    /\ LoaderInit
    /\ MainOff
    /\ ParseOff
    /\ cpc = "read"
    /\ year \in Years
    /\ df_raw \in ExcelTables
    /\ df_clean = NoFrame
    /\ clean_stats = << >>
    /\ again = << >>
    /\ deduped = << >>
    /\ split = << >>

\* step 3
Clean ==
    /\ cpc = "read"
    /\ LET r == clean_excel_data(df_raw)
       IN  /\ df_clean' = r.df
           /\ clean_stats' = r.stats
    /\ cpc' = "cleaned"
    /\ UNCHANGED << year, df_raw, again, deduped, split >>
    /\ UNCHANGED << loaderVars, mainVars, parseVars >>

\* the emptiness check of main and step 4
Split ==
    /\ cpc = "cleaned"
    /\ IF Len(df_clean.rows) = 0
       THEN /\ cpc' = "failed"
            /\ UNCHANGED split
       ELSE /\ split' = split_location_and_trend_data(df_clean, year)
            /\ cpc' = IF split'.exc = "none" THEN "split" ELSE "failed"
    /\ UNCHANGED << year, df_raw, df_clean, clean_stats, again, deduped >>
    /\ UNCHANGED << loaderVars, mainVars, parseVars >>

\* clean_excel_data applied to its own output
CleanAgain ==
    /\ cpc = "cleaned"
    /\ again' = clean_excel_data(df_clean)
    /\ cpc' = "recleaned"
    /\ UNCHANGED << year, df_raw, df_clean, clean_stats, deduped, split >>
    /\ UNCHANGED << loaderVars, mainVars, parseVars >>

\* drop_duplicate_store_nos applied to the table as read, with fresh statistics
Dedup ==
    /\ cpc = "read"
    /\ deduped' = drop_duplicate_store_nos(df_raw, CleaningStats)
    /\ cpc' = "deduped"
    /\ UNCHANGED << year, df_raw, df_clean, clean_stats, again, split >>
    /\ UNCHANGED << loaderVars, mainVars, parseVars >>

NextClean == Clean \/ Split \/ CleanAgain \/ Dedup

SpecClean == InitClean /\ [][NextClean]_vars

\* ================================================= parsing (utils/parsing.py)
\* a path is a sequence of characters
PathChars == {"Y", "E", "y", "e", "0", "2", "4", "9", "/", "x"}

Paths == SeqsUpTo(PathChars, MaxPathLen)

\* an Optional[int]: None is the empty sequence, a value n is << n >>
None == << >>

Some(n) == << n >>

\* os.path.basename: what follows the last separator
basename(path) ==
    LET seps == { i \in DOMAIN path : path[i] = "/" }
        last == IF seps = {} THEN 0 ELSE MaxOf(seps)
    IN  SubSeq(path, last + 1, Len(path))

Digits == << "0", "1", "2", "3", "4", "5", "6", "7", "8", "9" >>

isdigit(c) == \E i \in DOMAIN Digits : Digits[i] = c

\* int() of a string of two digits
int_digits(g) ==
    LET val(c) == (CHOOSE i \in DOMAIN Digits : Digits[i] = c) - 1
    IN  10 * val(g[1]) + val(g[2])

\* re.IGNORECASE on the letters of the pattern
casefold(c) == IF c = "Y" THEN "y" ELSE IF c = "E" THEN "e" ELSE c

\* re.match(r'^YE(\d{2})', basename, re.IGNORECASE): group 1 or None
re_match(name) ==
    IF /\ Len(name) >= 4
       /\ casefold(name[1]) = "y"
       /\ casefold(name[2]) = "e"
       /\ isdigit(name[3])
       /\ isdigit(name[4])
    THEN << name[3], name[4] >>
    ELSE None

\* variant: years from 50 on belong to the previous century
FourDigitYear_Windowed(two_digit_year) ==
    IF two_digit_year >= 50 THEN 1900 + two_digit_year ELSE 2000 + two_digit_year

\* four_digit_year = 2000 + two_digit_year
FourDigitYear(two_digit_year) == 2000 + two_digit_year

extract_year_from_filename(filename) ==
    LET match == re_match(basename(filename))
    IN  IF match # None
        THEN Some(FourDigitYear(int_digits(match)))
        ELSE None

\* ---- cell values.  A number is held in tenths (127 is 12.7).
\*   null                    None, a float NaN, pd.NA
\*   str, s                  a text that is not a decimal number
\*   decstr, tenths          the text of a decimal number ("12.7")
\*   float, tenths           a finite float
\*   float_inf / float_nan   a non-finite float (a float NaN cell is null)
\*   int, n                  an integer
Null == [k |-> "null"]

Str(t) == [k |-> "str", s |-> t]

DecStr(t) == [k |-> "decstr", tenths |-> t]

Float(t) == [k |-> "float", tenths |-> t]

FloatInf == [k |-> "float_inf"]

FloatNaN == [k |-> "float_nan"]

IntVal(i) == [k |-> "int", n |-> i]

Texts == {"", " ", "abc", "inf", "nan"}

CellValues ==
    {Null, FloatInf}
        \cup { Str(t) : t \in Texts }
        \cup { DecStr(t) : t \in -MaxTenths..MaxTenths }
        \cup { Float(t) : t \in -MaxTenths..MaxTenths }
        \cup { IntVal(y) : y \in Years }

\* pd.isna(value)
pd_isna(value) == value = Null

Returned(v) == [exc |-> "none", value |-> v]

Raised(e) == [exc |-> e, value |-> Null]

\* float(value)
float(value) ==
    CASE value.k = "null" -> Raised("TypeError")
      [] value.k = "str" ->
            IF value.s = "inf" THEN Returned(FloatInf)
            ELSE IF value.s = "nan" THEN Returned(FloatNaN)
            ELSE Raised("ValueError")
      [] value.k = "decstr" -> Returned(Float(value.tenths))
      [] value.k = "float" -> Returned(value)
      [] value.k = "float_inf" -> Returned(value)
      [] value.k = "float_nan" -> Returned(value)
      [] value.k = "int" -> Returned(Float(10 * value.n))

\* variant: rounding to the nearest integer
Truncate_Round(tenths) == (tenths + 5) \div 10

\* int() of a finite float discards the fraction (towards zero)
Truncate(tenths) ==
    IF tenths >= 0 THEN tenths \div 10 ELSE -((-tenths) \div 10)

\* int(f) of a float
int(f) ==
    CASE f.k = "float" -> Returned(IntVal(Truncate(f.tenths)))
      [] f.k = "float_inf" -> Raised("OverflowError")
      [] f.k = "float_nan" -> Raised("ValueError")

\* except (ValueError, TypeError)
Caught == {"ValueError", "TypeError"}

coerce_to_numeric(value, allow_null) ==
    LET fallback == IF allow_null THEN Null ELSE Float(0)
    IN  IF pd_isna(value) \/ value = Str("")
        THEN Returned(fallback)
        ELSE LET f == float(value)
             IN  IF f.exc \in Caught THEN Returned(fallback) ELSE f

coerce_to_integer(value, allow_null) ==
    LET fallback == IF allow_null THEN Null ELSE IntVal(0)
    IN  IF pd_isna(value) \/ value = Str("")
        THEN Returned(fallback)
        ELSE LET f == float(value)
                 i == IF f.exc = "none" THEN int(f.value) ELSE f
             IN  IF i.exc \in Caught THEN Returned(fallback) ELSE i

\* str(value).strip()
str_strip(value) ==
    CASE value.k = "str" -> IF value.s = " " THEN Str("") ELSE value
      [] value.k = "decstr" -> value
      [] value.k = "float" -> DecStr(value.tenths)
      [] value.k = "float_inf" -> Str("inf")
      [] value.k = "float_nan" -> Str("nan")
      [] value.k = "int" -> DecStr(10 * value.n)

coerce_to_text(value, allow_null) ==
    IF pd_isna(value)
    THEN Returned(IF allow_null THEN Null ELSE Str(""))
    ELSE Returned(str_strip(value))

\* sorted(set(location keys + trend keys)), as a set
get_all_excel_columns == DOMAIN LOCATION_COLUMN_MAP \cup DOMAIN TREND_COLUMN_MAP

\* ---- one call of a helper
ParseArgs ==
    { [path |-> p] : p \in Paths }
        \cup [value : CellValues, allow_null : BOOLEAN]
        \cup { [noargs |-> TRUE] }

InitParse ==
    /\ LoaderInit
    /\ CleanOff
    /\ MainOff
    /\ arg \in ParseArgs
    /\ ret = << >>

Call(fn, result) ==
    /\ ret = << >>
    /\ ret' = [fn |-> fn, result |-> result]
    /\ UNCHANGED << loaderVars, cleanVars, mainVars, arg >>

ExtractYear ==
    /\ "path" \in DOMAIN arg
    /\ Call("extract_year_from_filename", extract_year_from_filename(arg.path))

CoerceNumeric ==
    /\ "value" \in DOMAIN arg
    /\ Call("coerce_to_numeric", coerce_to_numeric(arg.value, arg.allow_null))

CoerceInteger ==
    /\ "value" \in DOMAIN arg
    /\ Call("coerce_to_integer", coerce_to_integer(arg.value, arg.allow_null))

CoerceText ==
    /\ "value" \in DOMAIN arg
    /\ Call("coerce_to_text", coerce_to_text(arg.value, arg.allow_null))

ExcelColumns ==
    /\ "noargs" \in DOMAIN arg
    /\ Call("columns", [location |-> get_location_columns,
                        trend |-> get_trend_columns,
                        all |-> get_all_excel_columns])

NextParse == ExtractYear \/ CoerceNumeric \/ CoerceInteger \/ CoerceText \/ ExcelColumns

SpecParse == InitParse /\ [][NextParse]_vars

\* ======================================== main (etl_restaurant_trends.py)
\* the values of --in
InputFiles ==
    { << "Y", "E", "2", "4" >>, << "x", "/", "y", "e", "0", "9", "x" >>,
      << "Y", "E", "2" >>, << "2", "4", "Y", "E" >>,
      << "Y", "E", "2", "4", "/", "x" >> }

\* a table of five rows: a fully empty row, a row with a blank key, two rows
\* sharing a key and a row with a key of its own, in any order
ScenarioRows(blank) ==
    << [STORE_NO |-> NaN, CHAIN |-> NaN, GRADE |-> NaN],
       [STORE_NO |-> blank, CHAIN |-> "x", GRADE |-> "g"],
       [STORE_NO |-> "A", CHAIN |-> "x", GRADE |-> "g"],
       [STORE_NO |-> "A", CHAIN |-> NaN, GRADE |-> "g"],
       [STORE_NO |-> "B", CHAIN |-> "x", GRADE |-> NaN] >>

ScenarioTables ==
    { DataFrame({"STORE_NO", "CHAIN", "GRADE"},
                [i \in 1..5 |-> ScenarioRows(blank)[perm[i]]]) :
        perm \in Permutations(1..5), blank \in {NaN, ""} }

\* df.rename(columns={k: v for k, v in map.items() if k in df.columns})
rename(df, map) ==
    LET new(c) == IF c \in DOMAIN map THEN map[c] ELSE c
        old(n) == CHOOSE c \in df.columns : new(c) = n
        cols == { new(c) : c \in df.columns }
    IN  DataFrame(cols, [i \in DOMAIN df.rows |->
                            [n \in cols |-> df.rows[i][old(n)]]])

map_location_columns(df) == rename(df, LOCATION_COLUMN_MAP)

map_trend_columns(df) == rename(df, TREND_COLUMN_MAP)

\* of the integer trend columns the model has year
get_integer_trend_columns == {"year"}

\* df[col] = df[col].apply(coerce_to_integer) for the listed columns present
coerce_integer_columns(df, integer_columns) ==
    DataFrame(df.columns,
        [i \in DOMAIN df.rows |->
            [c \in df.columns |->
                IF c \in integer_columns
                THEN coerce_to_integer(IntVal(df.rows[i][c]), TRUE).value.n
                ELSE df.rows[i][c]]])

\* missing = [col for col in required_columns if col not in df.columns]
validate_required_columns(df, required_columns) == required_columns \ df.columns

validate_location_data(df) == validate_required_columns(df, {"store_no"}) = {}

validate_trend_data(df) == validate_required_columns(df, {"store_no", "year"}) = {}

apply_column_mapping_and_types(ldf, tdf) ==
    LET loc == map_location_columns(ldf)
        trd == coerce_integer_columns(map_trend_columns(tdf),
                                      get_integer_trend_columns)
    IN  IF validate_location_data(loc) /\ validate_trend_data(trd)
        THEN [exc |-> "none", location_df |-> loc, trend_df |-> trd]
        ELSE [exc |-> "ValueError", location_df |-> NoFrame, trend_df |-> NoFrame]

\* variant: a missing year is not checked
YearError_Unchecked(yr) == "none"

\* if year is None: raise ValueError(...)
YearError(yr) == IF yr = None THEN "ValueError" ELSE "none"

\* the two files of export_to_csv: {base_name}_{year}_locations.csv and
\* {base_name}_{year}_trends.csv
CsvFiles(base_name, yr) ==
    { [base_name |-> base_name, year |-> yr, of |-> kind] :
        kind \in {"locations", "trends"} }

InitMain ==
    /\ LoaderInit
    /\ ParseOff
    /\ cpc = "start"
    /\ input_file \in InputFiles
    /\ load_mode \in {"none", "postgres"}
    /\ year = 0
    /\ df_raw = NoFrame
    /\ df_clean = NoFrame
    /\ clean_stats = << >>
    /\ again = << >>
    /\ deduped = << >>
    /\ split = << >>
    /\ mapped = << >>
    /\ csv = {}

\* step 1
Year ==
    /\ cpc = "start"
    /\ LET yr == extract_year_from_filename(input_file)
       IN  /\ year' = IF yr = None THEN 0 ELSE yr[1]
           /\ cpc' = IF YearError(yr) = "none" THEN "year" ELSE "failed"
    /\ UNCHANGED << df_raw, df_clean, clean_stats, again, deduped, split >>
    /\ UNCHANGED << loaderVars, mainVars, parseVars >>

\* step 2: read_excel_file returns the first sheet or raises
Read ==
    /\ cpc = "year"
    /\ \/ /\ df_raw' \in ExcelTables \cup ScenarioTables
          /\ cpc' = "read"
       \/ /\ cpc' = "failed"
          /\ UNCHANGED df_raw
    /\ UNCHANGED << year, df_clean, clean_stats, again, deduped, split >>
    /\ UNCHANGED << loaderVars, mainVars, parseVars >>

\* step 5
Types ==
    /\ cpc = "split"
    /\ mapped' = apply_column_mapping_and_types(split.location_df, split.trend_df)
    /\ cpc' = IF mapped'.exc = "none" THEN "mapped" ELSE "failed"
    /\ UNCHANGED << input_file, load_mode, csv >>
    /\ UNCHANGED << year, df_raw, df_clean, clean_stats, again, deduped, split >>
    /\ UNCHANGED << loaderVars, parseVars >>

\* step 6: export_to_csv writes both files or raises
Export ==
    /\ cpc = "mapped"
    /\ \/ /\ csv' = CsvFiles(basename(input_file), year)
          /\ cpc' = "exported"
       \/ /\ cpc' = "failed"
          /\ UNCHANGED csv
    /\ UNCHANGED << input_file, load_mode, mapped >>
    /\ UNCHANGED << year, df_raw, df_clean, clean_stats, again, deduped, split >>
    /\ UNCHANGED << loaderVars, parseVars >>

\* step 7 with --load none, and return 0
SkipLoad ==
    /\ cpc = "exported"
    /\ load_mode = "none"
    /\ cpc' = "done"
    /\ exit_status' = ExitStatus(FALSE)
    /\ UNCHANGED << pc, run, location_df, trend_df, loc_inserted,
                    trend_inserted, conn, cursor, exc, failed, fk, missing,
                    load_stats, exitLog, location, trend, sessLocation,
                    sessTrend >>
    /\ UNCHANGED << year, df_raw, df_clean, clean_stats, again, deduped, split >>
    /\ UNCHANGED << mainVars, parseVars >>

\* the except clause of main, for an exception of steps 1 to 6: return 1
Except ==
    /\ cpc = "failed"
    /\ cpc' = "done"
    /\ exit_status' = ExitStatus(TRUE)
    /\ UNCHANGED << pc, run, location_df, trend_df, loc_inserted,
                    trend_inserted, conn, cursor, exc, failed, fk, missing,
                    load_stats, exitLog, location, trend, sessLocation,
                    sessTrend >>
    /\ UNCHANGED << year, df_raw, df_clean, clean_stats, again, deduped, split >>
    /\ UNCHANGED << mainVars, parseVars >>

NextMain ==
    \/ Year
    \/ Read
    \/ Clean
    \/ Split
    \/ Types
    \/ Export
    \/ SkipLoad
    \/ Except
    \/ StartRun
    \/ connect
    \/ upsert_locations
    \/ verify_foreign_keys
    \/ upsert_trends
    \/ get_load_stats
    \/ Exit
    \/ Finish

SpecMain == InitMain /\ [][NextMain]_vars

\* ==================================================================== claims
LocationKeys(tbl) == { l.store_no : l \in tbl }

TrendKey(t) == << t.store_no, t.year >>

\* the run is executing upsert_locations / upsert_trends and the step commits
LocationsCommitted == pc = "locations" /\ pc' = "verify" /\ ~Empty(location_df)

TrendsCommitted == pc = "trends" /\ pc' = "stats" /\ ~Empty(trend_df)

\* C1: when foreign-key verification reports a missing store_no, upsert_trends
\* is never reached, no trend row is committed afterwards, the run ends with
\* exit status 1, and the location rows committed in step 1 stay as they are.
C1_FkMissingAbandonsTrendLoad ==
    /\ [](fk = "invalid" =>
            /\ Len(missing) > 0
            /\ \A i \in DOMAIN missing : missing[i] \notin LocationKeys(location)
            /\ pc \in {"exit", "raised", "done"}
            /\ exc # "none"
            /\ trend_inserted = 0
            /\ (pc = "done" => exit_status = 1))
    /\ [][fk = "invalid" => trend' = trend /\ location' = location]_vars

C1_Witness ==
    /\ fk = "invalid"
    /\ pc = "done"
    /\ exit_status = 1
    /\ loc_inserted > 0
    /\ \E l \in location : l.created_at = run

\* C2: every row of restaurant_trend references a store_no present in
\* restaurant_location, whatever steps failed, and no step removes a
\* store_no from restaurant_location.
C2_TrendReferencesLocation ==
    /\ [](\A t \in trend : t.store_no \in LocationKeys(location))
    /\ [][LocationKeys(location) \subseteq LocationKeys(location')]_vars

C2_Witness ==
    /\ run = 2
    /\ pc = "done"
    /\ exit_status = 1
    /\ "upsert_trends" \in failed
    /\ trend # {}

\* C3: restaurant_location never holds two rows with one store_no, and after
\* a committed upsert_locations every store_no of the batch has a row whose
\* supplied non-key, non-created_at fields carry the values of the last batch
\* row with that store_no.
C3_OneRowPerStoreNoLastLoadWins ==
    /\ [](\A l1, l2 \in location : l1.store_no = l2.store_no => l1 = l2)
    /\ [][LocationsCommitted =>
            \A i \in DOMAIN location_df.rows :
                LET r == location_df.rows[i]
                IN  (\A j \in (i + 1)..Len(location_df.rows) :
                        location_df.rows[j].store_no # r.store_no)
                    => \E l \in location' :
                         /\ l.store_no = r.store_no
                         /\ \A c \in location_df.columns \ {"store_no", "created_at"} :
                              l[c] = r[c]]_vars

C3_Witness ==
    /\ run = 2
    /\ pc = "verify"
    /\ loc_inserted > 0
    /\ Cardinality(location) = 1
    /\ \E l \in location : l.created_at = 1 /\ l.chain = "y"

\* C4: restaurant_trend never holds two rows with one (store_no, year); a step
\* keeps store_no, year, trend_id and created_at of every stored row, changes
\* only rows whose (store_no, year) is in the committed batch, adds rows only
\* for pairs of the batch, and leaves every pair of the batch with a row.
C4_TrendUpsertFrame ==
    /\ [](\A t1, t2 \in trend : TrendKey(t1) = TrendKey(t2) => t1 = t2)
    /\ [][LET batch == IF TrendsCommitted
                       THEN { TrendKey(r) : r \in Range(trend_df.rows) }
                       ELSE {}
          IN  /\ \A t \in trend : \E u \in trend' :
                    /\ TrendKey(u) = TrendKey(t)
                    /\ u.trend_id = t.trend_id
                    /\ u.created_at = t.created_at
                    /\ TrendKey(t) \notin batch => u = t
              /\ \A u \in trend' : TrendKey(u) \in batch \/ u \in trend
              /\ \A k \in batch : \E u \in trend' : TrendKey(u) = k]_vars

C4_Witness ==
    /\ pc = "stats"
    /\ trend_inserted = 1
    /\ \E t1, t2 \in trend :
         /\ t1.store_no = t2.store_no
         /\ t1.year # t2.year
         /\ t1.created_at = 1
         /\ t2.created_at = 2

\* C5: once the connection was opened, the run ends with the connection
\* closed, and a failed run rolled back before it closed.
C5_ConnectionAlwaysReleased ==
    (pc = "done" /\ conn # "none") =>
        /\ conn = "closed"
        /\ exit_status = 1 => exitLog = << "rollback", "close" >>

\* C6: a step that fails leaves both tables as they were and raises; a step
\* that commits leaves every store_no (or (store_no, year)) of its batch with
\* a row; restaurant_location changes in upsert_locations only and
\* restaurant_trend in upsert_trends only.
C6_StepAtomicLocationsDurable ==
    [][/\ pc = "locations" =>
            \/ /\ location' = location
               /\ pc' = "exit"
               /\ exc' # "none"
            \/ /\ pc' = "verify"
               /\ exc' = "none"
               /\ ~Empty(location_df) =>
                    \A r \in Range(location_df.rows) :
                        r.store_no \in LocationKeys(location')
       /\ pc = "trends" =>
            \/ /\ trend' = trend
               /\ pc' = "exit"
               /\ exc' # "none"
            \/ /\ pc' = "stats"
               /\ exc' = "none"
               /\ ~Empty(trend_df) =>
                    \A r \in Range(trend_df.rows) :
                        \E u \in trend' : TrendKey(u) = TrendKey(r)
       /\ pc # "locations" => location' = location
       /\ pc # "trends" => trend' = trend]_vars

C6_Witness ==
    /\ pc = "exit"
    /\ "upsert_trends" \in failed
    /\ sessTrend # trend
    /\ loc_inserted > 0
    /\ \E l \in location : l.created_at = run

C8_CleaningIdempotent ==
    cpc = "recleaned" =>
        /\ again.df = df_clean
        /\ again.stats.total_rows = Len(df_clean.rows)
        /\ again.stats.empty_rows_dropped = 0
        /\ again.stats.null_store_no_dropped = 0
        /\ again.stats.invalid_coords_dropped = 0
        /\ again.stats.duplicate_rows_dropped = 0

C8_Witness ==
    /\ cpc = "recleaned"
    /\ clean_stats.empty_rows_dropped > 0
    /\ clean_stats.duplicate_rows_dropped > 0
    /\ Len(df_clean.rows) > 0

\* C9: drop_duplicate_store_nos returns exactly the rows that are the first
\* with their STORE_NO, in input order, and duplicate_rows_dropped is the
\* number of rows it removed.
C9_KeepFirstInOrder ==
    cpc = "deduped" =>
        LET in == df_raw.rows
            out == deduped.df.rows
            first == IF "STORE_NO" \in df_raw.columns
                     THEN { i \in DOMAIN in :
                              \A j \in 1..(i - 1) : in[j].STORE_NO # in[i].STORE_NO }
                     ELSE DOMAIN in
            nth(k) == CHOOSE i \in first : Cardinality({ j \in first : j <= i }) = k
        IN  /\ Len(out) = Cardinality(first)
            /\ \A k \in DOMAIN out : out[k] = in[nth(k)]
            /\ deduped.stats.duplicate_rows_dropped = Len(in) - Len(out)

C9_Witness ==
    /\ cpc = "deduped"
    /\ deduped.stats.duplicate_rows_dropped = 1
    /\ Len(deduped.df.rows) = 2
    /\ df_raw.rows[1].STORE_NO = df_raw.rows[3].STORE_NO
    /\ df_raw.rows[1] # df_raw.rows[3]

\* C10: the location output of the splitter has every STORE_NO of the cleaned
\* table exactly once and no other, and every trend row has YEAR = year.
C10_SplitKeepsKeysStampsYear ==
    cpc = "split" =>
        LET loc == split.location_df.rows
            trd == split.trend_df.rows
        IN  /\ { loc[i].STORE_NO : i \in DOMAIN loc } =
               { df_clean.rows[i].STORE_NO : i \in DOMAIN df_clean.rows }
            /\ \A i, j \in DOMAIN loc : loc[i].STORE_NO = loc[j].STORE_NO => i = j
            /\ \A i \in DOMAIN trd : trd[i].YEAR = year

C10_Witness ==
    /\ cpc = "split"
    /\ Len(df_raw.rows) > Len(df_clean.rows)
    /\ Len(split.location_df.rows) = 2
    /\ Len(split.trend_df.rows) = 2

\* where the base name of a path starts, and whether it starts with one of
\* the letters Y, one of the letters E and two digits
BaseStart(path) ==
    CHOOSE i \in 1..(Len(path) + 1) :
        /\ \A j \in i..Len(path) : path[j] # "/"
        /\ i = 1 \/ path[i - 1] = "/"

StartsWithYE(path, ys, es) ==
    LET b == BaseStart(path)
    IN  /\ Len(path) >= b + 3
        /\ path[b] \in ys
        /\ path[b + 1] \in es
        /\ \A j \in {b + 2, b + 3} : \E d \in 0..9 : Digits[d + 1] = path[j]

TwoDigits(path) ==
    LET b == BaseStart(path)
        v(j) == CHOOSE d \in 0..9 : Digits[d + 1] = path[j]
    IN  10 * v(b + 2) + v(b + 3)

YearExtracted == ret # << >> /\ ret.fn = "extract_year_from_filename"

\* C12 as stated: extract_year_from_filename returns 2000 + d when the base
\* name starts with the capital letters YE and the two digits d, and None for
\* every other name.
C12_YearOnlyFromCapitalYE ==
    YearExtracted =>
        ret.result = IF StartsWithYE(arg.path, {"Y"}, {"E"})
                     THEN Some(2000 + TwoDigits(arg.path))
                     ELSE None

\* C12 as amended: extract_year_from_filename returns 2000 + d when the base
\* name starts with YE in any letter case and the two digits d (99 gives 2099,
\* 00 gives 2000), and None for every other name; the directory part is not
\* examined.
C12_YearFromYEAnyCase ==
    YearExtracted =>
        ret.result = IF StartsWithYE(arg.path, {"Y", "y"}, {"E", "e"})
                     THEN Some(2000 + TwoDigits(arg.path))
                     ELSE None

C12_Witness ==
    /\ YearExtracted
    /\ arg.path = << "/", "Y", "E", "9", "9" >>
    /\ ret.result = Some(2099)

Coerced ==
    /\ ret # << >>
    /\ ret.fn \in {"coerce_to_numeric", "coerce_to_integer", "coerce_to_text"}

Fallback(fn, allow_null) ==
    IF allow_null THEN Null
    ELSE CASE fn = "coerce_to_numeric" -> Float(0)
           [] fn = "coerce_to_integer" -> IntVal(0)
           [] fn = "coerce_to_text" -> Str("")

\* C13: no coercion function raises, and the integer coercion of a text that
\* is no number or of a non-finite value returns the fallback.
C13_CoercionNeverRaises ==
    Coerced =>
        /\ ret.result.exc = "none"
        /\ (/\ ret.fn = "coerce_to_integer"
            /\ arg.value \in {Str("abc"), Str("inf"), Str("nan"), FloatInf})
           => ret.result.value = Fallback(ret.fn, arg.allow_null)

\* C14: coerce_to_integer returns null (0 when allow_null is false) for null,
\* the empty string and a text that is no number, and for the text of a
\* decimal number the integer obtained by dropping the fraction.
C14_IntegerTruncatesTowardZero ==
    (ret # << >> /\ ret.fn = "coerce_to_integer") =>
        /\ arg.value \in {Null, Str(""), Str("abc"), Str(" ")} =>
              ret.result = Returned(Fallback(ret.fn, arg.allow_null))
        /\ arg.value.k = "decstr" =>
              /\ ret.result.exc = "none"
              /\ ret.result.value.k = "int"
              /\ LET n == ret.result.value.n
                     t == arg.value.tenths
                 IN  /\ t >= 0 => (10 * n <= t /\ t < 10 * n + 10)
                     /\ t <= 0 => (10 * n >= t /\ t > 10 * n - 10)

C14_Witness ==
    /\ ret # << >>
    /\ ret.fn = "coerce_to_integer"
    /\ arg.value = DecStr(127)
    /\ ret.result = Returned(IntVal(12))

\* C16: YEAR is in none of the column lists get_location_columns,
\* get_trend_columns and get_all_excel_columns.
C16_YearInNoExcelColumnList ==
    (ret # << >> /\ ret.fn = "columns") =>
        /\ "YEAR" \notin ret.result.location
        /\ "YEAR" \notin ret.result.trend
        /\ "YEAR" \notin ret.result.all

\* C19: when the cleaned table has a STORE_NO column, the splitter's
\* keep-first deduplication removes nothing: both outputs have as many rows
\* as the cleaned table, and no two trend rows share (STORE_NO, YEAR).
C19_SecondDedupRemovesNothing ==
    (cpc = "split" /\ "STORE_NO" \in df_clean.columns) =>
        LET trd == split.trend_df.rows
        IN  /\ Len(split.location_df.rows) = Len(df_clean.rows)
            /\ Len(trd) = Len(df_clean.rows)
            /\ \A i, j \in DOMAIN trd :
                  (trd[i].STORE_NO = trd[j].STORE_NO /\ trd[i].YEAR = trd[j].YEAR)
                    => i = j

C19_Witness ==
    /\ cpc = "split"
    /\ clean_stats.duplicate_rows_dropped = 1
    /\ Len(df_clean.rows) = 2
    /\ Len(split.location_df.rows) = 2

\* a is b with some rows left out, the others in their order
RECURSIVE IsSubsequence(_, _)
IsSubsequence(a, b) ==
    IF Len(a) = 0 THEN TRUE
    ELSE IF Len(b) = 0 THEN FALSE
    ELSE IF a[Len(a)] = b[Len(b)]
         THEN IsSubsequence(Prefix(a, Len(a) - 1), Prefix(b, Len(b) - 1))
         ELSE IsSubsequence(a, Prefix(b, Len(b) - 1))

\* C20: the statistics of clean_excel_data account for every row:
\* get_final_count() is the number of rows returned, total_rows the number of
\* rows given, and every cleaning step returns its input with some rows left
\* out and the others in their order.
C20_StatsAccountForEveryRow ==
    clean_stats # << >> =>
        LET d1 == drop_empty_rows(df_raw, CleaningStats).df
            d2 == drop_null_store_no(d1, CleaningStats).df
            d3 == drop_duplicate_store_nos(d2, CleaningStats).df
        IN  /\ get_final_count(clean_stats) = Len(df_clean.rows)
            /\ clean_stats.total_rows = Len(df_raw.rows)
            /\ clean_stats.empty_rows_dropped + clean_stats.null_store_no_dropped
                 + clean_stats.duplicate_rows_dropped
                 = Len(df_raw.rows) - Len(df_clean.rows)
            /\ IsSubsequence(d1.rows, df_raw.rows)
            /\ IsSubsequence(d2.rows, d1.rows)
            /\ IsSubsequence(d3.rows, d2.rows)
            /\ d3 = df_clean

C20_Witness ==
    /\ cpc = "cleaned"
    /\ "STORE_NO" \notin df_raw.columns
    /\ clean_stats.empty_rows_dropped = 1
    /\ Len(df_clean.rows) = 2
    /\ get_final_count(clean_stats) = 2

\* the table read is made of one fully empty row, one row with a blank key,
\* two rows sharing a key and one row with a key of its own
IsScenario(df) ==
    LET rows == df.rows
        empty == { i \in DOMAIN rows : \A c \in df.columns : rows[i][c] = NaN }
        blank == { i \in DOMAIN rows \ empty : rows[i].STORE_NO \in {NaN, ""} }
        keyed == DOMAIN rows \ (empty \cup blank)
    IN  /\ df.columns = {"STORE_NO", "CHAIN", "GRADE"}
        /\ Len(rows) = 5
        /\ Cardinality(empty) = 1
        /\ Cardinality(blank) = 1
        /\ Cardinality(keyed) = 3
        /\ Cardinality({ rows[i].STORE_NO : i \in keyed }) = 2

RowsDropped(stats) ==
    stats.empty_rows_dropped + stats.null_store_no_dropped
        + stats.invalid_coords_dropped + stats.duplicate_rows_dropped

\* C11 as stated: of such a table cleaning drops 3 rows and 1 row remains,
\* and the location output and the trend output have 1 row each.
C11_ScenarioLeavesOneRow ==
    (IsScenario(df_raw) /\ clean_stats # << >>) =>
        /\ RowsDropped(clean_stats) = 3
        /\ Len(df_clean.rows) = 1
        /\ cpc = "split" =>
              /\ Len(split.location_df.rows) = 1
              /\ Len(split.trend_df.rows) = 1

\* C11 as amended: of such a table cleaning drops 3 rows (the empty row, the
\* row with the blank key, the second row of the pair) and 2 rows remain, and
\* the location output and the trend output have 2 rows each.
C11_ScenarioLeavesTwoRows ==
    (IsScenario(df_raw) /\ clean_stats # << >>) =>
        /\ RowsDropped(clean_stats) = 3
        /\ clean_stats.empty_rows_dropped = 1
        /\ clean_stats.null_store_no_dropped = 1
        /\ clean_stats.duplicate_rows_dropped = 1
        /\ Len(df_clean.rows) = 2
        /\ cpc \notin {"cleaned", "failed"}
              => /\ Len(split.location_df.rows) = 2
                 /\ Len(split.trend_df.rows) = 2

C11_Witness ==
    /\ IsScenario(df_raw)
    /\ cpc = "split"
    /\ RowsDropped(clean_stats) = 3
    /\ Len(split.location_df.rows) = 2
    /\ Len(split.trend_df.rows) = 2

\* C15: when the table has no STORE_NO column, drop_null_store_no returns it
\* unchanged with a warning, the splitter does not raise, and a run that
\* fails on a non-empty cleaned table fails in the validation of step 5.
C15_AbsentKeyFatalOnlyAtValidation ==
    (clean_stats # << >> /\ "STORE_NO" \notin df_raw.columns) =>
        /\ df_clean = drop_empty_rows(df_raw, CleaningStats).df
        /\ \E i \in DOMAIN clean_stats.warnings :
              clean_stats.warnings[i].msg = "STORE_NO column missing from data"
        /\ split # << >> => split.exc = "none"
        /\ (cpc \in {"failed", "done"} /\ Len(df_clean.rows) > 0)
              => (mapped # << >> /\ mapped.exc = "ValueError")

InputFileMatches == StartsWithYE(input_file, {"Y", "y"}, {"E", "e"})

\* C17: when the file name has no year, nothing is read, cleaned, split,
\* mapped or written and no session is opened, and the run returns 1.
C17_NoYearAbortsBeforeAnyStage ==
    (cpc # "off" /\ ~InputFileMatches) =>
        /\ cpc \in {"start", "failed", "done"}
        /\ df_raw = NoFrame
        /\ clean_stats = << >>
        /\ split = << >>
        /\ mapped = << >>
        /\ csv = {}
        /\ run = 0
        /\ conn = "none"
        /\ exit_status = IF cpc = "done" THEN 1 ELSE -1

C17_Witness ==
    /\ cpc = "done"
    /\ input_file = << "Y", "E", "2", "4", "/", "x" >>
    /\ load_mode = "postgres"
    /\ exit_status = 1

\* C18: in a run through main the frames handed to the loader have the same
\* store_no values; verify_foreign_keys never reports a missing store_no, and
\* after a committed location upsert it reports valid, unless the store
\* fails.
C18_PipelineForeignKeysValid ==
    /\ [](mapped # << >> =>
            LocationKeys(Range(mapped.location_df.rows)) =
            LocationKeys(Range(mapped.trend_df.rows)))
    /\ [](cpc # "off" => (fk # "invalid" /\ missing = << >>))
    /\ [][(cpc # "off" /\ pc = "verify" /\ loc_inserted > 0) =>
            \/ fk' = "valid" /\ pc' = "trends" /\ exc' = "none"
            \/ exc' = "psycopg2.Error" /\ "verify_foreign_keys" \in failed']_vars

C18_Witness ==
    /\ cpc = "exported"
    /\ pc = "trends"
    /\ fk = "valid"
    /\ loc_inserted = 2
    /\ Cardinality(location) = 2
    /\ Len(trend_df.rows) = 2

Spec == Init /\ [][Next]_vars
====
